---------------------------- MODULE Spec2Model ----------------------------
(***************************************************************************)
(* Model of the speech pronunciation helper (src/script.js): tokenizer,    *)
(* sequential alignment engine (matchWords), progress tracker              *)
(* (applyWordHighlights, skipCurrentWord, addTextToView, startListening,   *)
(* clearTextView, stopListening) and the debounced render scheduler.       *)
(*                                                                         *)
(* Text is a sequence of one-character strings.  JavaScript indices are    *)
(* 0-based; a JavaScript array a is the TLA+ sequence with a[i] stored at  *)
(* position i + 1.                                                         *)
(*                                                                         *)
(* The status indicator is kept by its variant and the recognized-output   *)
(* element by its kind and span classes.  Left out: the locale selector,   *)
(* localStorage, and the silence timer and audiostart listener, whose only *)
(* effect, the "status-listening" variant while listening, is the effect   *)
(* of handleRecognitionError on "no-speech".                               *)
(***************************************************************************)
EXTENDS Integers, Sequences, FiniteSets, TLC

\* ------------------------------------------------------------------ bounds

\* Largest number of whitespace-separated pieces in a submitted text, and
\* of results in one recognition event.
MaxWords == 2

\* Largest number of startListening invocations suspended at the
\* microphone permission check at the same time.
MaxAwait == 1

\* Largest number of restart timeouts of handleRecognitionEnd pending at the
\* same time.
MaxRestart == 1

\* Bounds of the specification that exercises matchWords alone.
MaxTarget == 3
MaxSpoken == 3

\* ---------------------------------------------------------------- alphabet

\* Characters of the modelled texts: a lower-case letter, an upper-case
\* letter, a punctuation mark and white space.
Letters == {"a", "B"}
Space == " "
Punct == "!"

\* The raw words a text or a transcript is made of.
RawPieces == {<<"a">>, <<"B">>, <<Punct>>}

\* String.prototype.toLocaleLowerCase on one character.
toLocaleLowerCase(c) == IF c = "B" THEN "b" ELSE c

\* \p{L} or \p{N}
IsLetterOrNumber(c) == c \in Letters \cup {"b"}

\* ------------------------------------------------------------- text helpers

RECURSIVE DropLeadingSpace(_)
DropLeadingSpace(s) ==
  IF s # << >> /\ Head(s) = Space THEN DropLeadingSpace(Tail(s)) ELSE s

RECURSIVE DropTrailingSpace(_)
DropTrailingSpace(s) ==
  IF s # << >> /\ s[Len(s)] = Space
    THEN DropTrailingSpace(SubSeq(s, 1, Len(s) - 1))
    ELSE s

\* String.prototype.trim
trim(s) == DropTrailingSpace(DropLeadingSpace(s))

\* String.prototype.split(/\s+/): pieces between runs of white space; the
\* empty string gives one empty piece.  acc is the piece being read.
RECURSIVE SplitFrom(_, _, _)
SplitFrom(s, acc, inRun) ==
  IF s = << >> THEN << acc >>
  ELSE IF Head(s) = Space
    THEN IF inRun THEN SplitFrom(Tail(s), acc, TRUE)
                  ELSE << acc >> \o SplitFrom(Tail(s), << >>, TRUE)
    ELSE SplitFrom(Tail(s), Append(acc, Head(s)), FALSE)

split(s) == SplitFrom(s, << >>, FALSE)

\* Array.prototype.join(' ')
RECURSIVE join(_)
join(ws) ==
  IF ws = << >> THEN << >>
  ELSE IF Len(ws) = 1 THEN Head(ws)
  ELSE Head(ws) \o << Space >> \o join(Tail(ws))

NonEmpty(w) == w # << >>

\* ---------------------------------------------------------------- tokenizer

normalizeWord(word) ==
  LET kept == SelectSeq(word, IsLetterOrNumber)
  IN [k \in 1..Len(kept) |-> toLocaleLowerCase(kept[k])]

ParsedWord(word) == [original |-> word, normalized |-> normalizeWord(word)]

parseText(rawText) ==
  LET words == SelectSeq(split(trim(rawText)), NonEmpty)
  IN [k \in 1..Len(words) |-> ParsedWord(words[k])]

normalizeWords(rawText) ==
  LET words == split(trim(rawText))
  IN SelectSeq([k \in 1..Len(words) |-> normalizeWord(words[k])], NonEmpty)

\* --------------------------------------------------------- alignment engine

\* targetIndex: null
null == -1

\* Math.max with a slip: the first argument is returned.
Max_First(a, b) == a

Max(a, b) == IF a >= b THEN a ELSE b

\* new Array(n).fill(v)
Fill(n, v) == [k \in 1..n |-> v]

\* isCompleted with a slip: a skipped index is not treated as completed.
isCompleted_IgnoreSkipped(index, skipped, targetMatched) ==
  targetMatched[index + 1]

\* const isCompleted = index => skippedIndices.has(index) || targetMatched[index]
isCompleted(index, skipped, targetMatched) ==
  index \in skipped \/ targetMatched[index + 1]

\* SkipCompleted with a slip: the loop stops at the last target index.
RECURSIVE SkipCompleted_StopAtLast(_, _, _, _, _)
SkipCompleted_StopAtLast(cur, fm, n, skipped, targetMatched) ==
  IF cur < n - 1 /\ isCompleted(cur, skipped, targetMatched)
    THEN SkipCompleted_StopAtLast(cur + 1, Max(fm, cur), n, skipped, targetMatched)
    ELSE [currentTargetIndex |-> cur, furthestMatch |-> fm]

\* The inner while loop: move to the next unfinished target index.
RECURSIVE SkipCompleted(_, _, _, _, _)
SkipCompleted(cur, fm, n, skipped, targetMatched) ==
  IF cur < n /\ isCompleted(cur, skipped, targetMatched)
    THEN SkipCompleted(cur + 1, Max(fm, cur), n, skipped, targetMatched)
    ELSE [currentTargetIndex |-> cur, furthestMatch |-> fm]

\* MatchLoop with a slip: a mismatch moves on to the next target word.
RECURSIVE MatchLoop_AdvanceOnMismatch(_, _, _, _, _, _, _, _)
MatchLoop_AdvanceOnMismatch(target, recognized, skipped, i, cur0, fm0, tm, rm) ==
  IF i >= Len(recognized)
    THEN [targetMatched |-> tm, recognizedMatched |-> rm, furthestMatch |-> fm0]
    ELSE
      LET n == Len(target)
          adv == SkipCompleted(cur0, fm0, n, skipped, tm)
          cur == adv.currentTargetIndex
          fm == adv.furthestMatch
      IN IF cur >= n
           THEN MatchLoop_AdvanceOnMismatch(target, recognized, skipped, i + 1, cur, fm, tm,
                  [rm EXCEPT ![i + 1] = [targetIndex |-> null, status |-> "extra"]])
           ELSE IF recognized[i + 1] = target[cur + 1]
             THEN MatchLoop_AdvanceOnMismatch(target, recognized, skipped, i + 1, cur + 1,
                    Max(fm, cur),
                    [tm EXCEPT ![cur + 1] = TRUE],
                    [rm EXCEPT ![i + 1] = [targetIndex |-> cur, status |-> "match"]])
             ELSE MatchLoop_AdvanceOnMismatch(target, recognized, skipped, i + 1, cur + 1,
                    fm, tm,
                    [rm EXCEPT ![i + 1] = [targetIndex |-> cur, status |-> "mismatch"]])

\* MatchLoop with a slip: the current target index is never advanced, neither
\* by the inner while loop nor after a match.
RECURSIVE MatchLoop_StayOnMatch(_, _, _, _, _, _, _, _)
MatchLoop_StayOnMatch(target, recognized, skipped, i, cur0, fm0, tm, rm) ==
  IF i >= Len(recognized)
    THEN [targetMatched |-> tm, recognizedMatched |-> rm, furthestMatch |-> fm0]
    ELSE
      LET n == Len(target)
          cur == cur0
          fm == fm0
      IN IF cur >= n
           THEN MatchLoop_StayOnMatch(target, recognized, skipped, i + 1, cur, fm, tm,
                  [rm EXCEPT ![i + 1] = [targetIndex |-> null, status |-> "extra"]])
           ELSE IF recognized[i + 1] = target[cur + 1]
             THEN MatchLoop_StayOnMatch(target, recognized, skipped, i + 1, cur,
                    Max(fm, cur),
                    [tm EXCEPT ![cur + 1] = TRUE],
                    [rm EXCEPT ![i + 1] = [targetIndex |-> cur, status |-> "match"]])
             ELSE MatchLoop_StayOnMatch(target, recognized, skipped, i + 1, cur, fm, tm,
                    [rm EXCEPT ![i + 1] = [targetIndex |-> cur, status |-> "mismatch"]])

\* The for loop over the recognized words, from recognized index i on.
RECURSIVE MatchLoop(_, _, _, _, _, _, _, _)
MatchLoop(target, recognized, skipped, i, cur0, fm0, tm, rm) ==
  IF i >= Len(recognized)
    THEN [targetMatched |-> tm, recognizedMatched |-> rm, furthestMatch |-> fm0]
    ELSE
      LET n == Len(target)
          adv == SkipCompleted(cur0, fm0, n, skipped, tm)
          cur == adv.currentTargetIndex
          fm == adv.furthestMatch
      IN IF cur >= n
           THEN MatchLoop(target, recognized, skipped, i + 1, cur, fm, tm,
                  [rm EXCEPT ![i + 1] = [targetIndex |-> null, status |-> "extra"]])
           ELSE IF recognized[i + 1] = target[cur + 1]
             THEN MatchLoop(target, recognized, skipped, i + 1, cur + 1,
                    Max(fm, cur),
                    [tm EXCEPT ![cur + 1] = TRUE],
                    [rm EXCEPT ![i + 1] = [targetIndex |-> cur, status |-> "match"]])
             ELSE MatchLoop(target, recognized, skipped, i + 1, cur, fm, tm,
                    [rm EXCEPT ![i + 1] = [targetIndex |-> cur, status |-> "mismatch"]])

\* skippedIndices.forEach(index => { if (index >= 0 && index < n) ... })
RECURSIVE FoldSkipped(_, _, _)
FoldSkipped(skipped, n, fm) ==
  IF skipped = {} THEN fm
  ELSE LET index == CHOOSE x \in skipped : TRUE
       IN FoldSkipped(skipped \ {index}, n,
            IF index >= 0 /\ index < n THEN Max(fm, index) ELSE fm)

\* An entry of recognizedMatched that was never assigned (fill(null)).
Unassigned == [targetIndex |-> null, status |-> "null"]

\* matchWords with a slip: a skipped target index is reported as matched.
matchWords_SkippedCountAsMatched(target, recognized, skipped) ==
  LET n == Len(target)
      m == Len(recognized)
      targetMatched == Fill(n, FALSE)
      recognizedMatched == Fill(m, Unassigned)
  IN IF n = 0
       THEN [targetMatched |-> targetMatched,
             recognizedMatched |-> Fill(m, [targetIndex |-> null, status |-> "extra"]),
             furthestMatch |-> -1]
     ELSE IF m = 0
       THEN [targetMatched |-> targetMatched,
             recognizedMatched |-> recognizedMatched,
             furthestMatch |-> -1]
     ELSE
       LET r == MatchLoop(target, recognized, skipped, 0, 0, -1,
                          targetMatched, recognizedMatched)
       IN [r EXCEPT !.furthestMatch = FoldSkipped(skipped, n, r.furthestMatch),
                    !.targetMatched = [k \in 1..n |->
                                         r.targetMatched[k] \/ (k - 1) \in skipped]]

matchWords(target, recognized, skipped) ==
  LET n == Len(target)
      m == Len(recognized)
      targetMatched == Fill(n, FALSE)
      recognizedMatched == Fill(m, Unassigned)
  IN IF n = 0
       THEN [targetMatched |-> targetMatched,
             recognizedMatched |-> Fill(m, [targetIndex |-> null, status |-> "extra"]),
             furthestMatch |-> -1]
     ELSE IF m = 0
       THEN [targetMatched |-> targetMatched,
             recognizedMatched |-> recognizedMatched,
             furthestMatch |-> -1]
     ELSE
       LET r == MatchLoop(target, recognized, skipped, 0, 0, -1,
                          targetMatched, recognizedMatched)
       IN [r EXCEPT !.furthestMatch = FoldSkipped(skipped, n, r.furthestMatch)]

\* ------------------------------------------------------------------- inputs

\* All sequences over S of length at most n.
SeqsUpTo(S, n) == UNION {[1..k -> S] : k \in 0..n}

\* event.results of a recognition event: the transcript of each result.
EventResults == SeqsUpTo(RawPieces, MaxWords)

\* fullTranscript += transcript + ' ' over the results, before the trim.
RECURSIVE ConcatResults(_)
ConcatResults(results) ==
  IF results = << >> THEN << >>
  ELSE Head(results) \o << Space >> \o ConcatResults(Tail(results))

\* Values of textInput.value at the time Enter is pressed.
InputTexts == {ConcatResults(rs) : rs \in EventResults}

\* navigator.permissions.query(...).state, or 'prompt' when unsupported.
MicStates == {"granted", "denied", "prompt"}

\* What recognition.start() does in startListening: returns, throws
\* InvalidStateError, or throws another error.
StartOutcomes == {"started", "InvalidStateError", "error"}

\* event.error values, one for each branch of handleRecognitionError.
ErrorKeys == {"no-speech", "aborted", "network"}

\* -------------------------------------------------------------------- state

VARIABLES
  recognition,          \* TRUE when the SpeechRecognition object exists
  targetWords,          \* normalized target words
  displayWords,         \* original words with their normalized form
  isListening,
  currentMatchIndex,    \* furthest matched position
  rawTranscript,
  skippedIndices,
  lastRecognizedWords,
  pendingRecognition,   \* << >> for null, << recognizedWords >> otherwise
  timeout,              \* TRUE while the debounce timeout of renderRecognition is pending
  awaitingMic,          \* startListening invocations suspended at the permission check
  wordsContainer,       \* the highlight class of each word chip ("" for none)
  recognizedOutput,     \* the recognized-output element
  sessionStatus,        \* the status indicator
  sessionSummary,       \* the session summary element
  lastResult,           \* what the matchWords call of MatchStep returned
  stalePending,         \* TRUE when the pending timeout was set before the last session boundary
  restartTimer,         \* pending restart timeouts of handleRecognitionEnd
  restartedIdle         \* TRUE once a restart timeout called start() while not listening

vars == << recognition, targetWords, displayWords, isListening, currentMatchIndex,
           rawTranscript, skippedIndices, lastRecognizedWords,
           pendingRecognition, timeout, awaitingMic, wordsContainer,
           recognizedOutput, sessionStatus, sessionSummary, lastResult, stalePending,
           restartTimer, restartedIdle >>

\* --------------------------------------------------------------- DOM values

\* updateSessionStatus(label, variant): the indicator is modelled by the
\* variant it is given (its class name); the label text is not kept.
updateSessionStatus(label, variant) ==
  IF variant \in {"status-idle", "status-ready", "status-listening", "status-error",
                  "status-complete"}
    THEN variant
    ELSE "status-idle"

\* recognizedOutput after setRecognizedMessage(message): the text of the
\* message is not kept.
Message(message) == [kind |-> "message", tokens |-> << >>]
\* recognizedOutput holding one span per displayed word: `tokens` is the
\* class of each span, in order ("" for a span with no status class).
Tokens(tokens) == [kind |-> "tokens", tokens |-> tokens]

SummaryHidden == [kind |-> "hidden", matched |-> 0, total |-> 0]
SummaryProgress(k, n) == [kind |-> "progress", matched |-> k, total |-> n]
SummaryComplete(n) == [kind |-> "complete", matched |-> n, total |-> n]

NoResult == [targetMatched |-> << >>, recognizedMatched |-> << >>, furthestMatch |-> -1]

\* arr.filter(Boolean).length, querySelectorAll('.word-match').length
CountOf(seq, v) == Cardinality({k \in 1..Len(seq) : seq[k] = v})

Init ==
  /\ recognition \in BOOLEAN
  /\ targetWords = << >>
  /\ displayWords = << >>
  /\ isListening = FALSE
  /\ currentMatchIndex = 0
  /\ rawTranscript = << >>
  /\ skippedIndices = {}
  /\ lastRecognizedWords = << >>
  /\ pendingRecognition = << >>
  /\ timeout = FALSE
  /\ awaitingMic = 0
  /\ wordsContainer = << >>
  /\ recognizedOutput = Message("idle")
  /\ sessionStatus = updateSessionStatus("Idle", "status-idle")
  /\ sessionSummary = SummaryHidden
  /\ lastResult = NoResult
  /\ stalePending = FALSE
  /\ restartTimer = 0
  /\ restartedIdle = FALSE

\* ------------------------------------------------------ applyWordHighlights

\* The class applyWordHighlights gives the chip of target index `index`.
ChipClass(index, r, recognizedCount) ==
  IF index < Len(r.targetMatched) /\ r.targetMatched[index + 1] THEN "word-match"
  ELSE IF index <= r.furthestMatch /\ recognizedCount > 0 THEN "word-mismatch"
  ELSE IF index = r.furthestMatch + 1 THEN "word-current"
  ELSE ""

HighlightChips(chips, r, recognizedCount) ==
  [k \in 1..Len(chips) |-> ChipClass(k - 1, r, recognizedCount)]

\* resetWordHighlights
ResetChips(chips) == [k \in 1..Len(chips) |-> ""]

\* The status class of the span of the displayed word `index`.
TokenClass(recognizedMatched, index) ==
  IF index < Len(recognizedMatched) /\ recognizedMatched[index + 1] # Unassigned
    THEN LET match == recognizedMatched[index + 1]
         IN IF match.status = "match" THEN "recognized-word-match"
            ELSE IF match.status = "mismatch" THEN "recognized-word-mismatch"
            ELSE "recognized-word-extra"
    ELSE ""

updateRecognizedDisplay(recognizedWords, recognizedMatched, raw) ==
  IF Len(recognizedWords) = 0 THEN Message("Listening")
  ELSE IF raw # << >>
    THEN LET rawWords == split(trim(raw))
         IN Tokens([k \in 1..Len(rawWords) |-> TokenClass(recognizedMatched, k - 1)])
    ELSE Tokens([k \in 1..Len(recognizedWords) |-> TokenClass(recognizedMatched, k - 1)])

\* IsComplete with a slip: a target of one word is never complete.
IsComplete_MoreThanOne(targetMatched) ==
  CountOf(targetMatched, TRUE) = Len(targetMatched) /\ Len(targetMatched) > 1

\* matchedCount === totalTarget && totalTarget > 0
IsComplete(targetMatched) ==
  CountOf(targetMatched, TRUE) = Len(targetMatched) /\ Len(targetMatched) > 0

\* updateSessionSummary followed by showSessionComplete when complete.
updateSessionSummary(targetMatched) ==
  IF IsComplete(targetMatched)
    THEN SummaryComplete(Len(targetMatched))
    ELSE SummaryProgress(CountOf(targetMatched, TRUE), Len(targetMatched))

\* applyWordHighlights(recognizedWords), called when skippedIndices holds
\* `skipped` and the status indicator shows `status`.
applyWordHighlights(recognizedWords, skipped, status) ==
  IF Len(targetWords) = 0
    THEN /\ sessionStatus' = status
         /\ UNCHANGED << lastRecognizedWords, currentMatchIndex, wordsContainer,
                         recognizedOutput, sessionSummary >>
    ELSE LET r == matchWords(targetWords, recognizedWords, skipped)
         IN /\ lastRecognizedWords' = recognizedWords
            /\ currentMatchIndex' = r.furthestMatch
            /\ wordsContainer' = HighlightChips(wordsContainer, r, Len(recognizedWords))
            /\ recognizedOutput' =
                 updateRecognizedDisplay(recognizedWords, r.recognizedMatched, rawTranscript)
            /\ sessionSummary' = updateSessionSummary(r.targetMatched)
            /\ sessionStatus' = IF IsComplete(r.targetMatched)
                                  THEN updateSessionStatus("Complete", "status-complete")
                                  ELSE status

\* ------------------------------------------------------------ stopListening

\* The status stopListening leaves when recognition exists.
StopStatus ==
  IF Len(targetWords) > 0 /\ currentMatchIndex >= 0
    THEN LET matchedCount == CountOf(wordsContainer, "word-match")
             total == Len(targetWords)
         IN IF matchedCount = total THEN updateSessionStatus("Complete", "status-complete")
            ELSE updateSessionStatus("Stopped - k/n matched", "status-ready")
  ELSE IF Len(targetWords) > 0 THEN updateSessionStatus("Ready", "status-ready")
  ELSE updateSessionStatus("Idle", "status-idle")

\* What stopListening does to isListening.
stopListening ==
  IF recognition
    THEN isListening' = FALSE
    ELSE UNCHANGED isListening

StatusAfterStop == IF recognition THEN StopStatus ELSE sessionStatus

StopListening ==
  /\ stopListening
  /\ sessionStatus' = StatusAfterStop
  /\ UNCHANGED << recognition, targetWords, displayWords, currentMatchIndex, rawTranscript,
                  skippedIndices, lastRecognizedWords, pendingRecognition, timeout,
                  awaitingMic, wordsContainer, recognizedOutput, sessionSummary,
                  lastResult, restartTimer, restartedIdle, stalePending >>

\* ------------------------------------------------------------ addTextToView

IsValidWord(w) == Len(w.normalized) > 0

Normalized(w) == w.normalized

AddTextToView(text) ==
  LET rawText == trim(text)
      parsedWords == parseText(rawText)
      validWords == SelectSeq(parsedWords, IsValidWord)
  IN /\ stopListening
     /\ IF rawText = << >>
          THEN /\ sessionStatus' = updateSessionStatus("Enter some text first", "status-error")
               /\ UNCHANGED << targetWords, displayWords, currentMatchIndex, rawTranscript,
                               wordsContainer, recognizedOutput, sessionSummary, stalePending >>
        ELSE IF Len(parsedWords) = 0
          THEN /\ sessionStatus' = updateSessionStatus("No valid words found", "status-error")
               /\ recognizedOutput' = Message("idle")
               /\ UNCHANGED << targetWords, displayWords, currentMatchIndex, rawTranscript,
                               wordsContainer, sessionSummary, stalePending >>
        ELSE IF Len(validWords) = 0
          THEN /\ sessionStatus' = updateSessionStatus("No valid words found", "status-error")
               /\ UNCHANGED << targetWords, displayWords, currentMatchIndex, rawTranscript,
                               wordsContainer, recognizedOutput, sessionSummary, stalePending >>
        ELSE /\ displayWords' = validWords
             /\ targetWords' = [k \in 1..Len(validWords) |-> Normalized(validWords[k])]
             /\ wordsContainer' = [k \in 1..Len(validWords) |-> ""]
             /\ recognizedOutput' = Message("ready")
             /\ sessionStatus' = updateSessionStatus("Ready", "status-ready")
             /\ sessionSummary' = SummaryHidden
             /\ currentMatchIndex' = -1
             /\ rawTranscript' = << >>
             /\ stalePending' = timeout
     /\ UNCHANGED << recognition, skippedIndices, lastRecognizedWords, pendingRecognition,
                     timeout, awaitingMic, lastResult, restartTimer, restartedIdle >>

\* ------------------------------------------------------------ clearTextView

ClearTextView ==
  /\ stopListening
  /\ targetWords' = << >>
  /\ displayWords' = << >>
  /\ currentMatchIndex' = -1
  /\ skippedIndices' = {}
  /\ rawTranscript' = << >>
  /\ wordsContainer' = << >>
  /\ recognizedOutput' = Message("idle")
  /\ sessionStatus' = updateSessionStatus("Idle", "status-idle")
  /\ sessionSummary' = SummaryHidden
  /\ stalePending' = timeout
  /\ UNCHANGED << recognition, lastRecognizedWords, pendingRecognition, timeout,
                  awaitingMic, lastResult, restartTimer, restartedIdle >>

\* -------------------------------------------------- handleRecognitionResult

HandleRecognitionResult(results) ==
  LET fullTranscript == trim(ConcatResults(results))
      recognizedWords == normalizeWords(fullTranscript)
  IN /\ IF ~isListening
          THEN UNCHANGED << rawTranscript, recognizedOutput, pendingRecognition, timeout,
                            stalePending >>
          ELSE /\ rawTranscript' = fullTranscript
               /\ IF fullTranscript = << >>
                    THEN /\ recognizedOutput' = Message("Listening")
                         /\ UNCHANGED << pendingRecognition, timeout, stalePending >>
                    ELSE /\ pendingRecognition' = << recognizedWords >>
                         /\ timeout' = TRUE
                         /\ stalePending' = FALSE
                         /\ UNCHANGED recognizedOutput
     /\ UNCHANGED << recognition, targetWords, displayWords, isListening, currentMatchIndex,
                     skippedIndices, lastRecognizedWords, awaitingMic, wordsContainer,
                     sessionStatus, sessionSummary, lastResult, restartTimer, restartedIdle >>

\* -------------------------------------------------------- renderRecognition

\* renderRecognition with a slip: an empty snapshot is aligned like any other.
RenderRecognition_AlignEmpty ==
  /\ timeout
  /\ timeout' = FALSE
  /\ stalePending' = FALSE
  /\ IF pendingRecognition = << >>
       THEN UNCHANGED << pendingRecognition, sessionStatus, recognizedOutput,
                         lastRecognizedWords, currentMatchIndex, wordsContainer,
                         sessionSummary >>
       ELSE LET recognizedWords == pendingRecognition[1]
            IN /\ pendingRecognition' = << >>
               /\ IF Len(targetWords) > 0
                    THEN applyWordHighlights(recognizedWords, skippedIndices,
                           updateSessionStatus("Listening", "status-listening"))
                    ELSE /\ sessionStatus' = updateSessionStatus("Listening", "status-listening")
                         /\ recognizedOutput' =
                              Message(IF rawTranscript # << >> THEN rawTranscript
                                      ELSE join(recognizedWords))
                         /\ UNCHANGED << lastRecognizedWords, currentMatchIndex,
                                         wordsContainer, sessionSummary >>
  /\ UNCHANGED << recognition, targetWords, displayWords, isListening, rawTranscript,
                  skippedIndices, awaitingMic, lastResult, restartTimer, restartedIdle >>

\* The debounce timeout expires and runs the callback of renderRecognition.
RenderRecognition ==
  /\ timeout
  /\ timeout' = FALSE
  /\ stalePending' = FALSE
  /\ IF pendingRecognition = << >>
       THEN UNCHANGED << pendingRecognition, sessionStatus, recognizedOutput,
                         lastRecognizedWords, currentMatchIndex, wordsContainer,
                         sessionSummary >>
       ELSE LET recognizedWords == pendingRecognition[1]
            IN /\ pendingRecognition' = << >>
               /\ IF Len(recognizedWords) = 0
                    THEN /\ sessionStatus' = updateSessionStatus("Listening", "status-listening")
                         /\ recognizedOutput' = Message("Listening")
                         /\ UNCHANGED << lastRecognizedWords, currentMatchIndex,
                                         wordsContainer, sessionSummary >>
                  ELSE IF Len(targetWords) > 0
                    THEN applyWordHighlights(recognizedWords, skippedIndices,
                           updateSessionStatus("Listening", "status-listening"))
                    ELSE /\ sessionStatus' = updateSessionStatus("Listening", "status-listening")
                         /\ recognizedOutput' =
                              Message(IF rawTranscript # << >> THEN rawTranscript
                                      ELSE join(recognizedWords))
                         /\ UNCHANGED << lastRecognizedWords, currentMatchIndex,
                                         wordsContainer, sessionSummary >>
  /\ UNCHANGED << recognition, targetWords, displayWords, isListening, rawTranscript,
                  skippedIndices, awaitingMic, lastResult, restartTimer, restartedIdle >>

\* ---------------------------------------------------------- skipCurrentWord

\* skipCurrentWord with a slip: the index after the last target is skipped too.
SkipCurrentWord_NoUpperGuard ==
  LET nextIndex == currentMatchIndex + 1
  IN /\ IF Len(targetWords) = 0 \/ nextIndex < 0
          THEN UNCHANGED << skippedIndices, lastRecognizedWords, currentMatchIndex,
                            wordsContainer, recognizedOutput, sessionSummary,
                            sessionStatus >>
          ELSE /\ skippedIndices' = skippedIndices \cup {nextIndex}
               /\ applyWordHighlights(lastRecognizedWords, skippedIndices \cup {nextIndex},
                                      sessionStatus)
     /\ UNCHANGED << recognition, targetWords, displayWords, isListening, rawTranscript,
                     pendingRecognition, timeout, awaitingMic, stalePending, lastResult,
                     restartTimer, restartedIdle >>

SkipCurrentWord ==
  LET nextIndex == currentMatchIndex + 1
  IN /\ IF Len(targetWords) = 0 \/ nextIndex < 0 \/ nextIndex >= Len(targetWords)
          THEN UNCHANGED << skippedIndices, lastRecognizedWords, currentMatchIndex,
                            wordsContainer, recognizedOutput, sessionSummary,
                            sessionStatus >>
          ELSE /\ skippedIndices' = skippedIndices \cup {nextIndex}
               /\ applyWordHighlights(lastRecognizedWords, skippedIndices \cup {nextIndex},
                                      sessionStatus)
     /\ UNCHANGED << recognition, targetWords, displayWords, isListening, rawTranscript,
                     pendingRecognition, timeout, awaitingMic, stalePending, lastResult,
                     restartTimer, restartedIdle >>

\* ----------------------------------------------------------- startListening

\* startListening up to the await of checkMicrophonePermission.
StartListening ==
  /\ IF ~recognition
       THEN /\ sessionStatus' = updateSessionStatus("Speech recognition not supported",
                                                    "status-error")
            /\ UNCHANGED awaitingMic
     ELSE IF Len(targetWords) = 0
       THEN /\ sessionStatus' = updateSessionStatus("Add text to practice first", "status-error")
            /\ UNCHANGED awaitingMic
     ELSE IF isListening
       THEN UNCHANGED << sessionStatus, awaitingMic >>
     ELSE /\ awaitingMic < MaxAwait
          /\ awaitingMic' = awaitingMic + 1
          /\ UNCHANGED sessionStatus
  /\ UNCHANGED << recognition, targetWords, displayWords, isListening, currentMatchIndex,
                  rawTranscript, skippedIndices, lastRecognizedWords,
                  pendingRecognition, timeout, wordsContainer, recognizedOutput,
                  sessionSummary, lastResult, restartTimer, restartedIdle, stalePending >>

\* The message handleRecognitionError shows for an error key.
ErrorMessage(errorKey) ==
  IF errorKey \in {"not-allowed", "notallowederror"} THEN Message("error: microphone denied")
  ELSE IF errorKey \in {"audio-capture", "notfounderror"} THEN Message("error: no microphone")
  ELSE IF errorKey = "network" THEN Message("error: network")
  ELSE Message("error")

\* startListening from the await on: micStatus is what the permission check
\* returned and outcome is what recognition.start() does.
StartListeningResume(micStatus, outcome) ==
  /\ awaitingMic > 0
  /\ awaitingMic' = awaitingMic - 1
  /\ IF micStatus = "denied"
       THEN /\ sessionStatus' = updateSessionStatus("Microphone access denied", "status-error")
            /\ recognizedOutput' = Message("Please allow microphone access")
            /\ UNCHANGED << currentMatchIndex, skippedIndices, rawTranscript, wordsContainer,
                            sessionSummary, isListening, stalePending >>
       ELSE /\ currentMatchIndex' = -1
            /\ skippedIndices' = {}
            /\ rawTranscript' = << >>
            /\ wordsContainer' = ResetChips(wordsContainer)
            /\ sessionSummary' = SummaryHidden
            /\ stalePending' = timeout
            /\ IF outcome = "error"
                 THEN /\ recognizedOutput' = ErrorMessage("network")
                      /\ sessionStatus' = updateSessionStatus("Error", "status-error")
                      /\ isListening' = FALSE
                 ELSE /\ recognizedOutput' = Message("Listening")
                      /\ sessionStatus' = updateSessionStatus("Listening", "status-listening")
                      /\ isListening' = TRUE
  /\ UNCHANGED << recognition, targetWords, displayWords, lastRecognizedWords,
                  pendingRecognition, timeout, lastResult, restartTimer, restartedIdle >>

\* --------------------------------------------------- handleRecognitionError

HandleRecognitionError(errorKey) ==
  /\ recognition
  /\ IF errorKey = "no-speech"
       THEN /\ sessionStatus' = IF isListening
                                  THEN updateSessionStatus("Listening (no speech detected)",
                                                           "status-listening")
                                  ELSE sessionStatus
            /\ UNCHANGED << recognizedOutput, isListening >>
     ELSE IF errorKey = "aborted"
       THEN UNCHANGED << sessionStatus, recognizedOutput, isListening >>
     ELSE /\ recognizedOutput' = ErrorMessage(errorKey)
          /\ sessionStatus' = updateSessionStatus("Error", "status-error")
          /\ isListening' = FALSE
  /\ UNCHANGED << recognition, targetWords, displayWords, currentMatchIndex, rawTranscript,
                  skippedIndices, lastRecognizedWords, pendingRecognition, timeout,
                  awaitingMic, wordsContainer, sessionSummary, lastResult, restartTimer,
                  restartedIdle, stalePending >>

\* ----------------------------------------------------- handleRecognitionEnd

\* The recognizer ends: after a stop the status goes back to Ready or Idle;
\* while listening a restart of the recognizer is scheduled 100 ms later.
HandleRecognitionEnd ==
  /\ recognition
  /\ IF ~isListening
       THEN /\ sessionStatus' = IF Len(targetWords) > 0
                                  THEN updateSessionStatus("Ready", "status-ready")
                                  ELSE updateSessionStatus("Idle", "status-idle")
            /\ UNCHANGED restartTimer
       ELSE /\ restartTimer < MaxRestart
            /\ restartTimer' = restartTimer + 1
            /\ UNCHANGED sessionStatus
  /\ UNCHANGED << recognition, targetWords, displayWords, isListening, currentMatchIndex,
                  rawTranscript, skippedIndices, lastRecognizedWords, pendingRecognition,
                  timeout, awaitingMic, wordsContainer, recognizedOutput, sessionSummary,
                  lastResult, restartedIdle, stalePending >>

\* The restart timeout with a slip: isListening is not looked at again.
RestartCallback_NoListeningCheck(outcome) ==
  /\ restartTimer > 0
  /\ restartTimer' = restartTimer - 1
  /\ IF ~recognition
       THEN UNCHANGED << restartedIdle, recognizedOutput, sessionStatus, isListening >>
       ELSE /\ restartedIdle' = (restartedIdle \/ ~isListening)
            /\ IF outcome = "error"
                 THEN /\ recognizedOutput' = ErrorMessage("unknown")
                      /\ sessionStatus' = updateSessionStatus("Error", "status-error")
                      /\ isListening' = FALSE
                 ELSE UNCHANGED << recognizedOutput, sessionStatus, isListening >>
  /\ UNCHANGED << recognition, targetWords, displayWords, currentMatchIndex, rawTranscript,
                  skippedIndices, lastRecognizedWords, pendingRecognition, timeout,
                  awaitingMic, wordsContainer, sessionSummary, lastResult, stalePending >>

\* The restart timeout of handleRecognitionEnd expires: outcome is what
\* recognition.start() does when it is called; "error" is an exception that
\* is not an InvalidStateError and carries no name of its own.
RestartCallback(outcome) ==
  /\ restartTimer > 0
  /\ restartTimer' = restartTimer - 1
  /\ IF ~isListening \/ ~recognition
       THEN UNCHANGED << restartedIdle, recognizedOutput, sessionStatus, isListening >>
       ELSE /\ restartedIdle' = (restartedIdle \/ ~isListening)
            /\ IF outcome = "error"
                 THEN /\ recognizedOutput' = ErrorMessage("unknown")
                      /\ sessionStatus' = updateSessionStatus("Error", "status-error")
                      /\ isListening' = FALSE
                 ELSE UNCHANGED << recognizedOutput, sessionStatus, isListening >>
  /\ UNCHANGED << recognition, targetWords, displayWords, currentMatchIndex, rawTranscript,
                  skippedIndices, lastRecognizedWords, pendingRecognition, timeout,
                  awaitingMic, wordsContainer, sessionSummary, lastResult, stalePending >>

\* ------------------------------------------------------------ specification

Next ==
  \/ \E text \in InputTexts : AddTextToView(text)
  \/ ClearTextView
  \/ StopListening
  \/ StartListening
  \/ \E micStatus \in MicStates, outcome \in StartOutcomes :
       StartListeningResume(micStatus, outcome)
  \/ \E results \in EventResults : HandleRecognitionResult(results)
  \/ RenderRecognition
  \/ SkipCurrentWord
  \/ \E errorKey \in ErrorKeys : HandleRecognitionError(errorKey)
  \/ HandleRecognitionEnd
  \/ \E outcome \in StartOutcomes : RestartCallback(outcome)

Spec == Init /\ [][Next]_vars

\* ------------------------------------------- matchWords on arbitrary inputs

\* Normalized words of the alignment inputs.
Words == {<<"a">>, <<"b">>, <<"c">>}

\* Any target sequence and any skip set: indices at or beyond the length of
\* the target stay in skippedIndices when a shorter text is submitted.
InitMatch ==
  /\ recognition = TRUE
  /\ targetWords \in SeqsUpTo(Words, MaxTarget)
  /\ displayWords = << >>
  /\ isListening = FALSE
  /\ currentMatchIndex = -1
  /\ rawTranscript = << >>
  /\ skippedIndices \in SUBSET (0..MaxTarget)
  /\ lastRecognizedWords = << >>
  /\ pendingRecognition = << >>
  /\ timeout = FALSE
  /\ awaitingMic = 0
  /\ wordsContainer = << >>
  /\ recognizedOutput = Message("idle")
  /\ sessionStatus = updateSessionStatus("Idle", "status-idle")
  /\ sessionSummary = SummaryHidden
  /\ lastResult = NoResult
  /\ stalePending = FALSE
  /\ restartTimer = 0
  /\ restartedIdle = FALSE

\* One call matchWords(targetWords, recognizedWords) with skippedIndices as it is.
\* matchWords changes neither of its inputs nor skippedIndices, so a second
\* call in the same behaviour shows nothing the first call of another does not.
MatchStep(recognizedWords) ==
  /\ lastResult = NoResult
  /\ lastRecognizedWords' = recognizedWords
  /\ lastResult' = matchWords(targetWords, recognizedWords, skippedIndices)
  /\ UNCHANGED << recognition, targetWords, displayWords, isListening, currentMatchIndex,
                  rawTranscript, skippedIndices, pendingRecognition, timeout, awaitingMic,
                  wordsContainer, recognizedOutput, sessionStatus, sessionSummary,
                  stalePending,
                  restartTimer, restartedIdle >>

NextMatch == \E recognizedWords \in SeqsUpTo(Words, MaxSpoken) : MatchStep(recognizedWords)

SpecMatch == InitMatch /\ [][NextMatch]_vars

\* ------------------------------------- matchWords of the test file (LCS)

\* dp[i][j] of the test file's matchWords: the length of a longest common
\* subsequence of the first i target words and the first j recognized words.
RECURSIVE dp(_, _, _, _)
dp(target, recognized, i, j) ==
  IF i = 0 \/ j = 0 THEN 0
  ELSE IF target[i] = recognized[j]
    THEN dp(target, recognized, i - 1, j - 1) + 1
    ELSE Max(dp(target, recognized, i - 1, j), dp(target, recognized, i, j - 1))

\* The backward reconstruction: the while loop from (i, j) on, giving the
\* matches as records of 0-based indices, in the order they are pushed.
RECURSIVE Backtrack(_, _, _, _, _)
Backtrack(target, recognized, i, j, matches) ==
  IF ~(i > 0 /\ j > 0) THEN matches
  ELSE IF target[i] = recognized[j]
    THEN Backtrack(target, recognized, i - 1, j - 1,
                   Append(matches, [targetIdx |-> i - 1, recIdx |-> j - 1]))
  ELSE IF dp(target, recognized, i - 1, j) > dp(target, recognized, i, j - 1)
    THEN Backtrack(target, recognized, i - 1, j, matches)
    ELSE Backtrack(target, recognized, i, j - 1, matches)

\* matches.reverse()
reverse(s) == [k \in 1..Len(s) |-> s[Len(s) + 1 - k]]

\* The loop over the matches, from match number k on.
RECURSIVE ApplyMatches(_, _, _, _, _)
ApplyMatches(matches, k, tm, rm, fm) ==
  IF k > Len(matches)
    THEN [targetMatched |-> tm, recognizedMatched |-> rm, furthestMatch |-> fm]
    ELSE LET match == matches[k]
         IN ApplyMatches(matches, k + 1,
              [tm EXCEPT ![match.targetIdx + 1] = TRUE],
              [rm EXCEPT ![match.recIdx + 1] =
                 [targetIndex |-> match.targetIdx, status |-> "match"]],
              Max(fm, match.targetIdx))

\* The last loop: every entry still null becomes extra.
FillExtra(rm) ==
  [k \in 1..Len(rm) |->
     IF rm[k] = Unassigned THEN [targetIndex |-> null, status |-> "extra"] ELSE rm[k]]

\* matchWords of the test file.
matchWordsLCS(target, recognized) ==
  LET n == Len(target)
      m == Len(recognized)
      targetMatched == Fill(n, FALSE)
      recognizedMatched == Fill(m, Unassigned)
  IN IF n = 0 \/ m = 0
       THEN [targetMatched |-> targetMatched,
             recognizedMatched |-> FillExtra(recognizedMatched),
             furthestMatch |-> -1]
       ELSE LET matches == reverse(Backtrack(target, recognized, n, m, << >>))
                r == ApplyMatches(matches, 1, targetMatched, recognizedMatched, -1)
            IN [r EXCEPT !.recognizedMatched = FillExtra(r.recognizedMatched)]

\* Any target sequence; the test file's matchWords reads no skip set.
InitLCS ==
  /\ InitMatch
  /\ skippedIndices = {}

\* One call matchWords(targetWords, recognizedWords) of the test file.
LcsStep(recognizedWords) ==
  /\ lastResult = NoResult
  /\ lastRecognizedWords' = recognizedWords
  /\ lastResult' = matchWordsLCS(targetWords, recognizedWords)
  /\ UNCHANGED << recognition, targetWords, displayWords, isListening, currentMatchIndex,
                  rawTranscript, skippedIndices, pendingRecognition, timeout, awaitingMic,
                  wordsContainer, recognizedOutput, sessionStatus, sessionSummary,
                  stalePending,
                  restartTimer, restartedIdle >>

NextLCS == \E recognizedWords \in SeqsUpTo(Words, MaxSpoken) : LcsStep(recognizedWords)

SpecLCS == InitLCS /\ [][NextLCS]_vars

\* ===================================================================== claims

\* ------------------------------------------------- steps the claims speak of

ValidWords(text) == SelectSeq(parseText(trim(text)), IsValidWord)

\* addTextToView with at least one valid word.
SubmitText == \E text \in InputTexts : Len(ValidWords(text)) > 0 /\ AddTextToView(text)

\* startListening reaching its "reset state for new session" block.
ResetSession ==
  \E micStatus \in MicStates \ {"denied"}, outcome \in StartOutcomes :
    StartListeningResume(micStatus, outcome)

SessionBoundary == SubmitText \/ ResetSession \/ ClearTextView

total == Len(targetWords)

\* skipCurrentWord called while a target word is outstanding.
SkipOutstanding ==
  /\ total > 0
  /\ currentMatchIndex + 1 >= 0
  /\ currentMatchIndex + 1 < total
  /\ SkipCurrentWord

\* The debounced render runs an alignment pass.
RenderPass ==
  /\ RenderRecognition
  /\ pendingRecognition # << >>
  /\ Len(pendingRecognition[1]) > 0
  /\ total > 0

\* C1 (as claimed): within one session the cursor currentMatchIndex never
\* decreases, whatever snapshots are recognized and whatever is skipped.
C1_MonotonicCursor ==
  [][~SessionBoundary => currentMatchIndex' >= currentMatchIndex]_vars

\* C2 (as claimed): a debounce timeout that was pending at a session
\* boundary is cancelled: when it goes away it has run no alignment pass and
\* has updated neither the cursor nor the status.
C2_StaleTimerCancelled ==
  [][(timeout /\ stalePending /\ ~timeout')
       => UNCHANGED << currentMatchIndex, lastRecognizedWords, wordsContainer,
                       sessionStatus, sessionSummary, recognizedOutput >>]_vars

\* C3 (as claimed): a skip while a target word is outstanding puts that index
\* in the skip set and advances the cursor at once, with or without a
\* recognition: the cursor reaches the index, the skipped chip shows
\* word-mismatch and the following chip shows word-current.
C3_SkipAdvancesCursor ==
  [][SkipOutstanding =>
       LET nextIndex == currentMatchIndex + 1
       IN /\ nextIndex \in skippedIndices'
          /\ currentMatchIndex' >= nextIndex
          /\ wordsContainer'[nextIndex + 1] = "word-mismatch"
          /\ (nextIndex + 1 < total /\ currentMatchIndex' = nextIndex)
               => wordsContainer'[nextIndex + 2] = "word-current"]_vars

\* C4 (as claimed): a successful text submission empties the skip set, sets
\* the cursor to -1 and empties the cached recognized snapshot.
C4_SubmitResetsTracker ==
  [][SubmitText =>
       /\ skippedIndices' = {}
       /\ currentMatchIndex' = -1
       /\ lastRecognizedWords' = << >>]_vars

\* C5 (as claimed), first half: the cursor is in [-1, total - 1].
C5_CursorInRange == currentMatchIndex >= -1 /\ currentMatchIndex <= total - 1

\* C5 (as claimed), second half: every skipped index is in [0, total).
C5_SkipSetInRange == \A index \in skippedIndices : index >= 0 /\ index < total

\* C5 (as claimed): in every reachable state the cursor is in
\* [-1, total - 1] and every member of the skip set is in [0, total).
C5_IndicesInRange == C5_CursorInRange /\ C5_SkipSetInRange

\* C8 (as claimed): within one session showSessionComplete is called at most
\* once: an alignment pass that starts while the summary already shows
\* "complete" (set by showSessionComplete only, hidden again at every session
\* boundary) does not end with showSessionComplete called again.
C8_CompleteSignalledOnce ==
  [][((RenderPass \/ SkipOutstanding) /\ sessionSummary = SummaryComplete(total))
       => sessionSummary' # SummaryComplete(total)]_vars

\* C9 (as claimed): a chip shows word-mismatch only if its index is in the
\* skip set.
C9_MismatchOnlyIfSkipped ==
  \A k \in 1..Len(wordsContainer) :
    wordsContainer[k] = "word-mismatch" => (k - 1) \in skippedIndices

\* The largest skipped index that is a target index, or -1.
MaxSkipped ==
  LET inRange == {index \in skippedIndices : index >= 0 /\ index < total}
  IN IF inRange = {} THEN -1 ELSE CHOOSE x \in inRange : \A y \in inRange : y <= x

\* C6: in a matchWords result every recognized word classified match or
\* mismatch has the target index c the cursor stood at: the word is a mismatch
\* exactly when it differs from target word c, c itself is not skipped, every
\* target index below c is matched or skipped, after a mismatch the next word
\* is compared with c again and after a match the next word is compared with a
\* later index or is extra.  Target [a, b] with recognized [c, c] and nothing
\* skipped gives two mismatches at index 0, furthestMatch -1, nothing matched.
C6_CursorAdvancesOnlyOnMatchOrSkip ==
  LET r == lastResult
      rec == lastRecognizedWords
      rm == r.recognizedMatched
  IN /\ Len(rm) = Len(rec)
     /\ \A j \in 1..Len(rec) :
          rm[j].status \in {"match", "mismatch"} =>
            LET c == rm[j].targetIndex
            IN /\ c >= 0 /\ c < total
               /\ (rm[j].status = "mismatch") <=> (rec[j] # targetWords[c + 1])
               /\ (rm[j].status = "match") => r.targetMatched[c + 1]
               /\ c \notin skippedIndices
               /\ \A k \in 0..(c - 1) : r.targetMatched[k + 1] \/ k \in skippedIndices
               /\ (j < Len(rec) /\ rm[j].status = "mismatch")
                    => (rm[j + 1].targetIndex = c /\ rm[j + 1].status # "extra")
               /\ (j < Len(rec) /\ rm[j].status = "match")
                    => (rm[j + 1].status = "extra" \/ rm[j + 1].targetIndex > c)
     /\ (targetWords = << <<"a">>, <<"b">> >> /\ skippedIndices = {}
           /\ rec = << <<"c">>, <<"c">> >>)
          => /\ rm = << [targetIndex |-> 0, status |-> "mismatch"],
                        [targetIndex |-> 0, status |-> "mismatch"] >>
             /\ r.furthestMatch = -1
             /\ r.targetMatched = << FALSE, FALSE >>

\* C6 witness: matchWords has run on target [a, b, a] with index 1 skipped and
\* recognized [c, a, a]: a mismatch at 0, a match at 0, then the cursor moves
\* over the skipped index 1 and matches at 2.
C6_Witness ==
  /\ targetWords = << <<"a">>, <<"b">>, <<"a">> >>
  /\ skippedIndices = {1}
  /\ lastRecognizedWords = << <<"c">>, <<"a">>, <<"a">> >>
  /\ lastResult.recognizedMatched = << [targetIndex |-> 0, status |-> "mismatch"],
                                       [targetIndex |-> 0, status |-> "match"],
                                       [targetIndex |-> 2, status |-> "match"] >>
  /\ lastResult.furthestMatch = 2

\* C7 (as claimed): every alignment pass of the debounced render runs on the
\* snapshot of the last recognition event.  While listening every event
\* overwrites rawTranscript, so for a pass whose snapshot was stored in the
\* running session the snapshot is the token sequence of rawTranscript.
C7_PassUsesLastEvent ==
  [][(RenderPass /\ isListening /\ ~stalePending)
       => pendingRecognition[1] = normalizeWords(rawTranscript)]_vars

\* C10 (as claimed): matchWords on a non-empty target and an empty recognized
\* sequence matches nothing and returns the largest skipped index as
\* furthestMatch (-1 when nothing is skipped).
C10_EmptyRecognizedFoldsSkips ==
  (total > 0 /\ lastRecognizedWords = << >> /\ lastResult # NoResult)
    => /\ \A k \in 1..Len(lastResult.targetMatched) : ~lastResult.targetMatched[k]
       /\ lastResult.furthestMatch = MaxSkipped

\* C11 (as claimed): the session reset of startListening empties the skip set,
\* sets the cursor to -1, empties the cached recognized snapshot and leaves
\* the target sequence as it is.
C11_ResetClearsTracker ==
  [][ResetSession =>
       /\ skippedIndices' = {}
       /\ currentMatchIndex' = -1
       /\ lastRecognizedWords' = << >>
       /\ targetWords' = targetWords]_vars

\* C12: no target index is both matched and skipped.  In every reachable
\* state, for every index of the skip set that is a target index, the chip of
\* that index does not show word-match, and matchWords on the cached snapshot
\* and on the pending snapshot (the results of the last pass and of the next
\* one) does not mark that index matched.
C12_NeverMatchedAndSkipped ==
  \A index \in skippedIndices :
    (index >= 0 /\ index < total) =>
      /\ index < Len(wordsContainer) => wordsContainer[index + 1] # "word-match"
      /\ ~matchWords(targetWords, lastRecognizedWords, skippedIndices).targetMatched[index + 1]
      /\ pendingRecognition # << >> =>
           ~matchWords(targetWords, pendingRecognition[1],
                       skippedIndices).targetMatched[index + 1]

\* C12 witness: target [a, a] with index 0 skipped and the snapshot [a]
\* rendered: the recognized word equals the skipped target word, yet it is
\* matched to index 1 and the chip of index 0 shows word-mismatch.
C12_Witness ==
  /\ targetWords = << <<"a">>, <<"a">> >>
  /\ skippedIndices = {0}
  /\ lastRecognizedWords = << <<"a">> >>
  /\ wordsContainer = << "word-mismatch", "word-match" >>
  /\ currentMatchIndex = 1

\* Every target index is matched by a recognized word before word j (0-based)
\* or is in the skip set: the engine cursor has left the target sequence.
ResolvedBefore(j) ==
  \A k \in 0..(total - 1) :
    \/ k \in skippedIndices
    \/ \E i \in 1..j : /\ lastResult.recognizedMatched[i].status = "match"
                       /\ lastResult.recognizedMatched[i].targetIndex = k

\* C13: in a matchWords result recognized word j is classified extra exactly
\* when every target index is resolved (matched by an earlier word of the pass
\* or skipped) when the word is processed, which includes the empty target;
\* an extra entry has targetIndex null and the other entries have a target
\* index.  Target [a] with recognized [a, b] and nothing skipped gives a match
\* at index 0, an extra with targetIndex null and furthestMatch 0.
C13_ExtraIffAllResolved ==
  LET rm == lastResult.recognizedMatched
      rec == lastRecognizedWords
  IN /\ \A j \in 1..Len(rm) :
          /\ (rm[j].status = "extra") <=> ResolvedBefore(j - 1)
          /\ (rm[j].status = "extra") <=> (rm[j].targetIndex = null)
     /\ (lastResult # NoResult \/ total = 0) => Len(rm) = Len(rec)
     /\ (targetWords = << <<"a">> >> /\ skippedIndices = {}
           /\ rec = << <<"a">>, <<"b">> >>)
          => /\ rm = << [targetIndex |-> 0, status |-> "match"],
                        [targetIndex |-> null, status |-> "extra"] >>
             /\ lastResult.furthestMatch = 0

\* C13 witness: target [a, b] with index 1 skipped and recognized [a, b, c]:
\* after the match at 0 every target index is resolved, so both later words
\* are extra, the word b that equals the skipped target word included.
C13_Witness ==
  /\ targetWords = << <<"a">>, <<"b">> >>
  /\ skippedIndices = {1}
  /\ lastRecognizedWords = << <<"a">>, <<"b">>, <<"c">> >>
  /\ lastResult.recognizedMatched = << [targetIndex |-> 0, status |-> "match"],
                                       [targetIndex |-> null, status |-> "extra"],
                                       [targetIndex |-> null, status |-> "extra"] >>
  /\ lastResult.furthestMatch = 1

\* C14: with an empty skip set and a non-empty target, matchWords on a
\* recognized sequence equal to the target marks every target matched,
\* classifies recognized word j as match with targetIndex j and returns
\* furthestMatch = total - 1.
C14_NoSkipIdentity ==
  (skippedIndices = {} /\ total > 0 /\ lastRecognizedWords = targetWords
     /\ lastResult # NoResult)
    => /\ lastResult.targetMatched = [k \in 1..total |-> TRUE]
       /\ lastResult.recognizedMatched =
            [j \in 1..total |-> [targetIndex |-> j - 1, status |-> "match"]]
       /\ lastResult.furthestMatch = total - 1

\* C14 witness: matchWords has run on target [a, b, a] with recognized
\* [a, b, a] and nothing skipped, and returned furthestMatch 2.
C14_Witness ==
  /\ targetWords = << <<"a">>, <<"b">>, <<"a">> >>
  /\ skippedIndices = {}
  /\ lastRecognizedWords = targetWords
  /\ lastResult.furthestMatch = 2
  /\ lastResult.targetMatched = << TRUE, TRUE, TRUE >>

\* The debounced render runs an alignment pass on a snapshot equal to the
\* target sequence while nothing is skipped.
IdentityPass ==
  /\ RenderPass
  /\ skippedIndices = {}
  /\ pendingRecognition[1] = targetWords

\* C15: with an empty skip set every pass on a snapshot equal to the target
\* sequence ends with isComplete true (summary and status show complete),
\* every chip word-match, the cursor on the last index and the snapshot
\* cached, whatever the state before it; a repeated pass therefore ends in
\* the state the first one ended in and changes none of them.
C15_IdentityPassCompletes ==
  [][IdentityPass =>
       /\ sessionSummary' = SummaryComplete(total)
       /\ sessionStatus' = updateSessionStatus("Complete", "status-complete")
       /\ wordsContainer' = [k \in 1..total |-> "word-match"]
       /\ currentMatchIndex' = total - 1
       /\ lastRecognizedWords' = targetWords
       /\ (/\ sessionSummary = SummaryComplete(total)
           /\ lastRecognizedWords = targetWords
           /\ currentMatchIndex = total - 1
           /\ wordsContainer = [k \in 1..total |-> "word-match"])
            => UNCHANGED << sessionSummary, lastRecognizedWords, currentMatchIndex,
                            wordsContainer >>]_vars

\* C15 witness: a pass on a snapshot equal to the two-word target has
\* completed the session and the same snapshot is pending again.
C15_Witness ==
  /\ isListening
  /\ total = 2
  /\ skippedIndices = {}
  /\ lastRecognizedWords = targetWords
  /\ sessionSummary = SummaryComplete(total)
  /\ sessionStatus = updateSessionStatus("Complete", "status-complete")
  /\ currentMatchIndex = total - 1
  /\ timeout
  /\ pendingRecognition = << targetWords >>

\* There is no target sequence or the index after the cursor is outside
\* [0, total).
NothingToSkip ==
  \/ total = 0
  \/ currentMatchIndex + 1 < 0
  \/ currentMatchIndex + 1 >= total

\* C16: in every state with no target sequence, or with currentMatchIndex + 1
\* outside [0, total), skipCurrentWord changes nothing: no call of it changes
\* the skip set, the cursor, the cached snapshot, a chip, the recognized
\* output, the summary, the status, the target or the listening flag.
C16_SkipOutOfRangeIsNoOp ==
  NothingToSkip =>
    ~ENABLED (/\ SkipCurrentWord
              /\ ~UNCHANGED << skippedIndices, currentMatchIndex, lastRecognizedWords,
                               wordsContainer, recognizedOutput, sessionSummary,
                               sessionStatus, targetWords, isListening >>)

\* C16 witness: the cursor stands on the last index of a two-word target
\* after a skip of that index, so the next skipCurrentWord is out of range.
C16_Witness ==
  /\ total = 2
  /\ currentMatchIndex = 1
  /\ 1 \in skippedIndices
  /\ wordsContainer[2] = "word-mismatch"
  /\ NothingToSkip
  /\ ENABLED SkipCurrentWord

\* addTextToView with a text that is empty, only white space, or whose every
\* word normalizes to the empty string.
InvalidSubmit ==
  \E text \in InputTexts : Len(ValidWords(text)) = 0 /\ AddTextToView(text)

\* C17 (as claimed): addTextToView with a text that has no valid word leaves
\* the target sequence, the skip set, the cursor, the cached snapshot and the
\* listening state as they are.
C17_InvalidSubmitLeavesSession ==
  [][InvalidSubmit =>
       UNCHANGED << targetWords, skippedIndices, currentMatchIndex, lastRecognizedWords,
                    isListening >>]_vars

\* A recognition event received while listening whose transcript is empty or
\* holds no word after normalization.
EmptyEvent ==
  \E results \in EventResults :
    /\ isListening
    /\ normalizeWords(trim(ConcatResults(results))) = << >>
    /\ HandleRecognitionResult(results)

\* The debounced render of a snapshot without words.
EmptyRender ==
  /\ RenderRecognition
  /\ pendingRecognition # << >>
  /\ Len(pendingRecognition[1]) = 0

\* C18: a recognition event whose transcript is empty or tokenizes to the
\* empty sequence, and the debounced render of its snapshot, change no
\* alignment state (cursor, skip set, cached snapshot, chips, summary, target)
\* and do not put the status indicator into the error state.
C18_EmptySnapshotChangesNothing ==
  [][(EmptyEvent \/ EmptyRender) =>
       /\ UNCHANGED << currentMatchIndex, skippedIndices, lastRecognizedWords,
                       wordsContainer, sessionSummary, targetWords, isListening >>
       /\ sessionStatus' = "status-error" => sessionStatus = "status-error"]_vars

\* C18 witness: with a word of the target matched, the snapshot of an event
\* whose transcript tokenizes to the empty sequence has been rendered: the
\* recognized output shows the Listening message and the alignment stands.
C18_Witness ==
  /\ isListening
  /\ total = 2
  /\ currentMatchIndex = 0
  /\ wordsContainer = << "word-match", "word-current" >>
  /\ rawTranscript = << Punct >>
  /\ pendingRecognition = << >>
  /\ ~timeout
  /\ recognizedOutput = Message("Listening")
  /\ sessionStatus = updateSessionStatus("Listening", "status-listening")

\* C19 (as claimed): in a result of the test file's matchWords every recognized
\* word is match with a target index or extra with targetIndex null, a match
\* at target index k leaves no earlier target position that holds the same
\* word unmatched, and target [a, b, b] with recognized [a, c, b] gives
\* targetMatched [true, true, false], target indices [0, null, 1] and
\* furthestMatch 1.
C19_LcsMatchesEarliest ==
  LET r == lastResult
      rm == r.recognizedMatched
  IN /\ \A j \in 1..Len(rm) :
          /\ rm[j].status \in {"match", "extra"}
          /\ (rm[j].status = "extra") <=> (rm[j].targetIndex = null)
          /\ rm[j].status = "match" =>
               \A k \in 0..(rm[j].targetIndex - 1) :
                 targetWords[k + 1] = targetWords[rm[j].targetIndex + 1]
                   => r.targetMatched[k + 1]
     /\ (/\ targetWords = << <<"a">>, <<"b">>, <<"b">> >>
         /\ lastRecognizedWords = << <<"a">>, <<"c">>, <<"b">> >>
         /\ r # NoResult)
          => /\ r.targetMatched = << TRUE, TRUE, FALSE >>
             /\ rm = << [targetIndex |-> 0, status |-> "match"],
                        [targetIndex |-> null, status |-> "extra"],
                        [targetIndex |-> 1, status |-> "match"] >>
             /\ r.furthestMatch = 1

\* C20: recognition.start() is never called by the restart timeout of
\* handleRecognitionEnd while isListening is false, in any interleaving of end
\* events, restart timeouts, stopListening, startListening, submissions and
\* recognition errors.
C20_RestartOnlyWhileListening == ~restartedIdle

\* C20 witness: a restart timeout scheduled by an end event during listening
\* is still pending after stopListening, so its callback runs while
\* isListening is false.
C20_Witness ==
  /\ recognition
  /\ restartTimer > 0
  /\ ~isListening
  /\ total > 0
  /\ sessionStatus = updateSessionStatus("Ready", "status-ready")
  /\ ENABLED (\E outcome \in StartOutcomes : RestartCallback(outcome))

\* ------------------------------------------------------------------- C21

\* The index the inner while loop of matchWords stops at once the pass is
\* over: the lowest target index that is neither matched nor skipped, or the
\* number of target words when there is none.
EngineCursor(targetMatched, skipped) ==
  LET n == Len(targetMatched)
      open == {index \in 0..(n - 1) : ~isCompleted(index, skipped, targetMatched)}
  IN IF open = {} THEN n ELSE CHOOSE x \in open : \A y \in open : x <= y

\* An alignment pass with a non-empty snapshot: the debounced render, or the
\* re-run of skipCurrentWord on the cached snapshot.
SnapshotPass ==
  \/ RenderPass
  \/ (SkipOutstanding /\ Len(lastRecognizedWords) > 0)

\* C21 (as claimed): after every alignment pass with a non-empty snapshot the
\* index presented as current, currentMatchIndex + 1 (the index the next
\* skipCurrentWord skips), is the engine cursor: the lowest target index that
\* is neither matched in that pass nor in the skip set.
C21_CurrentIsEngineCursor ==
  [][SnapshotPass =>
       LET r == matchWords(targetWords, lastRecognizedWords', skippedIndices')
       IN currentMatchIndex' + 1 = EngineCursor(r.targetMatched, skippedIndices')]_vars

\* ------------------------------------------------------------------- C22

\* C22 (as claimed): whenever isListening is true the target sequence is
\* non-empty, under every interleaving of startListening (suspended at the
\* microphone permission check), clearTextView, addTextToView and
\* stopListening.
C22_ListeningHasTarget == isListening => total > 0

\* ------------------------------------------------------------------- C23

\* Some index of the skip set is a target index.
SkippedInRange(skipped) == \E index \in skipped : index >= 0 /\ index < total

\* A recognition pass: the debounced render, or the re-run of skipCurrentWord.
RecognitionPass == RenderPass \/ SkipOutstanding

\* C23: skipped words never count as matched: a recognition pass that ends
\* with a target index in the skip set leaves isComplete false, whatever the
\* snapshot: the skipped target is not matched, the summary does not show
\* "complete" and the status does not become Complete.
C23_SkippedNeverCompletes ==
  [][(RecognitionPass /\ SkippedInRange(skippedIndices')) =>
       LET r == matchWords(targetWords, lastRecognizedWords', skippedIndices')
       IN /\ ~IsComplete(r.targetMatched)
          /\ \A index \in skippedIndices' :
               (index >= 0 /\ index < total) => wordsContainer'[index + 1] # "word-match"
          /\ sessionSummary' = SummaryProgress(CountOf(wordsContainer', "word-match"), total)
          /\ CountOf(wordsContainer', "word-match") < total
          /\ sessionStatus' # updateSessionStatus("Complete", "status-complete")]_vars

\* C23 witness: target [a, b] with index 0 skipped; the pass on snapshot [b]
\* has matched every word that is not skipped, and the summary shows 1/2.
C23_Witness ==
  /\ targetWords = << <<"a">>, <<"b">> >>
  /\ skippedIndices = {0}
  /\ lastRecognizedWords = << <<"b">> >>
  /\ wordsContainer = << "word-mismatch", "word-match" >>
  /\ currentMatchIndex = 1
  /\ sessionSummary = SummaryProgress(1, 2)

\* ------------------------------------------------------------------- C24

\* C24: every result of matchWords is well-formed and order-preserving:
\* recognizedMatched has one non-null entry per recognized word; targetIndex
\* is null exactly for the extra entries; a match entry j names a target word
\* equal to recognized word j whose targetMatched entry is true; no target
\* index is matched by two recognized words, and every target marked matched
\* is matched by one; the targetIndex values of the non-extra entries never
\* decrease in recognized order and increase strictly from one match entry to
\* the next.
C24_ResultWellFormed ==
  LET r == lastResult
      rec == lastRecognizedWords
      rm == r.recognizedMatched
      NonExtra == {j \in 1..Len(rm) : rm[j].status # "extra"}
      Matches == {j \in 1..Len(rm) : rm[j].status = "match"}
  IN /\ Len(rm) = Len(rec)
     /\ (lastResult # NoResult) => Len(r.targetMatched) = total
     /\ \A j \in 1..Len(rm) :
          /\ rm[j] # Unassigned
          /\ rm[j].status \in {"match", "mismatch", "extra"}
          /\ (rm[j].targetIndex = null) <=> (rm[j].status = "extra")
          /\ rm[j].status # "extra" => (rm[j].targetIndex >= 0 /\ rm[j].targetIndex < total)
     /\ \A j \in Matches :
          /\ targetWords[rm[j].targetIndex + 1] = rec[j]
          /\ r.targetMatched[rm[j].targetIndex + 1]
     /\ \A j, k \in Matches : rm[j].targetIndex = rm[k].targetIndex => j = k
     /\ \A t \in 1..Len(r.targetMatched) :
          r.targetMatched[t] => \E j \in Matches : rm[j].targetIndex = t - 1
     /\ \A j, k \in NonExtra : j < k => rm[j].targetIndex <= rm[k].targetIndex
     /\ \A j, k \in Matches : j < k => rm[j].targetIndex < rm[k].targetIndex

\* C24 witness: matchWords has run on target [a, b] and recognized [c, a, b]
\* with index 1 skipped: a mismatch at 0, a match at 0 and an extra word.
C24_Witness ==
  /\ targetWords = << <<"a">>, <<"b">> >>
  /\ skippedIndices = {1}
  /\ lastRecognizedWords = << <<"c">>, <<"a">>, <<"b">> >>
  /\ lastResult.recognizedMatched = << [targetIndex |-> 0, status |-> "mismatch"],
                                       [targetIndex |-> 0, status |-> "match"],
                                       [targetIndex |-> null, status |-> "extra"] >>
  /\ lastResult.targetMatched = << TRUE, FALSE >>

\* ------------------------------------------------------------------- C25

\* The debounce timeout expires and its callback sets the status indicator
\* to Listening or changes the cursor, the cached snapshot or a chip.
RenderTakesEffect ==
  /\ RenderRecognition
  /\ \/ sessionStatus' = updateSessionStatus("Listening", "status-listening")
     \/ ~UNCHANGED << currentMatchIndex, lastRecognizedWords, wordsContainer >>

\* C25 (as claimed): once stopListening has completed no debounced render
\* runs: a snapshot queued before the stop cannot set the status indicator
\* back to Listening or change the cursor, the cached snapshot or the chips.
C25_NoRenderAfterStop ==
  [][(recognition /\ StopListening) => (~ENABLED RenderTakesEffect)']_vars

\* ------------------------------------------------------------------- C26

\* The class of the span of raw word number k (from 1) when it is styled by
\* the entry of the normalized token derived from that word: the n-th raw
\* word that normalizes to a non-empty token has entry n of recognizedMatched,
\* and a raw word that normalizes to the empty string has no token.
ClassOfOwnToken(rawWords, recognizedMatched, k) ==
  LET kept == {j \in 1..k : normalizeWord(rawWords[j]) # << >>}
  IN IF normalizeWord(rawWords[k]) = << >> THEN ""
     ELSE TokenClass(recognizedMatched, Cardinality(kept) - 1)

\* C26 (as claimed): after an alignment pass that displays the raw
\* transcript, the recognized tokens of the pass are the normalized words of
\* that transcript and every raw word is styled with the classification of
\* its own normalized token, also when a word normalizes to the empty string
\* and when a skip re-renders after a newer raw transcript was stored.
C26_RawWordStyledByOwnToken ==
  [][(SnapshotPass /\ rawTranscript # << >>) =>
       LET r == matchWords(targetWords, lastRecognizedWords', skippedIndices')
           rawWords == split(trim(rawTranscript))
       IN /\ normalizeWords(rawTranscript) = lastRecognizedWords'
          /\ recognizedOutput' =
               Tokens([k \in 1..Len(rawWords) |->
                         ClassOfOwnToken(rawWords, r.recognizedMatched, k)])]_vars

=============================================================================
